---------------------------- MODULE Spec2Model ----------------------------
(***************************************************************************)
(* A model of the KTANE manual application (src/src/app.rs).               *)
(*                                                                         *)
(* The application is an immediate-mode GUI: Application::update runs once *)
(* per frame, matches on the active module and handles the one widget the  *)
(* user interacted with in that frame (or none).  Every action below is    *)
(* one whole call of update for one input event; the actions named ...Frame*)
(* are the frames in which no widget was used.                             *)
(*                                                                         *)
(* Strings built by push_str(x); push_str(" ") are modelled as the         *)
(* sequence of the pushed tokens x: the empty string is the empty sequence.*)
(* Text typed into a field is a sequence of one-character strings.         *)
(***************************************************************************)
EXTENDS Integers, Sequences, FiniteSets, TLC

VARIABLES
    module,         \* Application.module
    state,          \* Application.state  (usize, shared by all modules)
    label,          \* Application.label  (String, shared by Keypad and Passwords)
    keypad,         \* Application.keypad (HashMap<KeypadButton, u8>)
    simon_says,     \* Application.simon_says
    memory,         \* Application.memory
    wire_sequence,  \* Application.wire_sequence
    password,       \* Application.password ([String; 5])
    panic           \* "" while running, else the message update panicked with

vars == <<module, state, label, keypad, simon_says, memory, wire_sequence,
          password, panic>>

(***************************************************************************)
(* Bounds of the model (not program constants).                            *)
(***************************************************************************)
\* The pointer position inside the keypad image is px/TapRes, py/TapRes of
\* its width and height.
TapRes == 6
\* Specification Spec taps only the pointer rows 0..MaxTapPy of the image.
MaxTapPy == 0
\* Specification Spec clicks only the label buttons 1..MaxLabel of Memory.
MaxLabel == 1
\* Specification Spec presses a Simon-Says color only while fewer than
\* MaxEntered colors are entered; specification SpecTables, MaxPairs.
MaxEntered == 1
MaxPairs == 2
\* Specification SpecPasswords presses a key of the on-screen keyboard only
\* while the focused field holds fewer than MaxKeyed characters.
MaxKeyed == 2
\* Text edits type one of the first MaxText sample texts.
MaxText == 2
\* Specification Spec edits only the password fields 0..MaxField.
MaxField == 0
\* Specification Spec moves the wire-sequence counters within 0..MaxWire only.
MaxWire == 1

(***************************************************************************)
(* enum Module                                                             *)
(***************************************************************************)
Module == <<"Menu", "Wires", "Button", "Keypad", "SimonSays", "WhosOnFirst",
            "Memory", "MorseCode", "ComplicatedWires", "WireSequences",
            "Mazes", "Passwords", "Knobs">>

\* Module::iter() with the first variant (Menu) skipped
MenuButtons == {Module[i] : i \in 2..Len(Module)}

(***************************************************************************)
(* enum KeypadButton and its tables                                        *)
(***************************************************************************)
KEYPAD_BUTTONS == <<
    <<"O", "A", "Lambda", "N", "Person">>,
    <<"H", "AntiC", "Euro", "Q", "EmptyStar">>,
    <<"Question", "Copyright", "W", "X", "R">>,
    <<"N6", "Paragraph", "B", "Smile", "Trident">>,
    <<"C", "Snake", "FilledStar", "Puzzle", "AE">>,
    <<"Yot", "Omega", "None", "None", "None">> >>

\* KEYPAD_COLUMNS with Lambda for Euro in the second list
KEYPAD_COLUMNS_LambdaTwice == <<
    <<"O", "A", "Lambda", "N", "Person", "H", "AntiC">>,
    <<"Lambda", "O", "AntiC", "Q", "EmptyStar", "H", "Question">>,
    <<"Copyright", "W", "Q", "X", "R", "Lambda", "EmptyStar">>,
    <<"N6", "Paragraph", "B", "Person", "X", "Question", "Smile">>,
    <<"Trident", "Smile", "B", "C", "Paragraph", "Snake", "FilledStar">>,
    <<"N6", "Euro", "Puzzle", "AE", "Trident", "Yot", "Omega">> >>

KEYPAD_COLUMNS == <<
    <<"O", "A", "Lambda", "N", "Person", "H", "AntiC">>,
    <<"Euro", "O", "AntiC", "Q", "EmptyStar", "H", "Question">>,
    <<"Copyright", "W", "Q", "X", "R", "Lambda", "EmptyStar">>,
    <<"N6", "Paragraph", "B", "Person", "X", "Question", "Smile">>,
    <<"Trident", "Smile", "B", "C", "Paragraph", "Snake", "FilledStar">>,
    <<"N6", "Euro", "Puzzle", "AE", "Trident", "Yot", "Omega">> >>

KeypadButton == {KEYPAD_BUTTONS[y][x] : y \in 1..6, x \in 1..5}

\* KeypadButton::name
name(k) ==
    CASE k = "AntiC"      -> "Anti-C"
      [] k = "EmptyStar"  -> "Empty Stat"
      [] k = "N6"         -> "6"
      [] k = "FilledStar" -> "Filled Star"
      [] k = "Yot"        -> "Yot"
      [] OTHER            -> k

(***************************************************************************)
(* Simon Says                                                              *)
(***************************************************************************)
SimonColor == <<"Red", "Blue", "Green", "Yellow">>

\* TABLE with Red for Green in the row of no vowel and 1 strike
TABLE_RedTwice == <<
    "Blue", "Yellow", "Green", "Red",
    "Red", "Blue", "Yellow", "Red",
    "Yellow", "Green", "Blue", "Red",
    "Blue", "Red", "Yellow", "Green",
    "Yellow", "Green", "Blue", "Red",
    "Green", "Red", "Yellow", "Blue" >>

TABLE == <<
    "Blue", "Yellow", "Green", "Red",      \* No vowel, 0 strikes
    "Red", "Blue", "Yellow", "Green",      \* No vowel, 1 strike
    "Yellow", "Green", "Blue", "Red",      \* No vowel, 2 strikes
    "Blue", "Red", "Yellow", "Green",      \* Vowel, 0 strikes
    "Yellow", "Green", "Blue", "Red",      \* Vowel, 1 strike
    "Green", "Red", "Yellow", "Blue" >>    \* Vowel, 2 strikes

\* the match in SimonSays::convert
colorIndex(color) ==
    CASE color = "Red"    -> 0
      [] color = "Blue"   -> 1
      [] color = "Green"  -> 2
      [] color = "Yellow" -> 3

\* convert with the vowel half of the table taken to start at entry 8
convertVowelEight(simon, color) ==
    TABLE[(((IF simon.vowel THEN 8 ELSE 0) + simon.strikes * 4
            + colorIndex(color)) % 256) + 1]

\* SimonSays::convert; the sum is a u8, TABLE is indexed from 0 in the source
convert(simon, color) ==
    TABLE[(((IF simon.vowel THEN 12 ELSE 0) + simon.strikes * 4
            + colorIndex(color)) % 256) + 1]

SimonSaysDefault == [strikes |-> 0, vowel |-> FALSE, entered |-> <<>>]

(***************************************************************************)
(* Who's on First, Complicated Wires, Wire Sequences: table sizes          *)
(***************************************************************************)
WHOS_ON_FIRST_POSITIONS_len == 28
WHOS_ON_FIRST_BUTTONS_len == 28

COMPLICATED_WIRES == <<
    "ALWAYS", "NEVER", "ALWAYS", "2+ BATTERIES",
    "LAST DIGIT EVEN", "PARALLEL PORT", "NEVER", "PARALLEL PORT",
    "LAST DIGIT EVEN", "2+ BATTERIES", "ALWAYS", "2+ BATTERIES",
    "LAST DIGIT EVEN", "LAST DIGIT EVEN", "PARALLEL PORT", "NEVER" >>

WIRE_SEQUENCE == <<
    "C", "B", "A", "AC", "B", "AC", "ABC", "AB", "B",      \* Red
    "B", "AC", "B", "A", "B", "BC", "C", "AC", "A",        \* Blue
    "ABC", "AC", "B", "AC", "B", "BC", "AB", "C", "C" >>   \* Black

WireSequenceDefault == [red |-> 0, blue |-> 0, black |-> 0]

(***************************************************************************)
(* Memory                                                                  *)
(***************************************************************************)
MemoryDefault == [position1 |-> 0, position2 |-> 0, label1 |-> 0,
                  label2 |-> 0, label3 |-> 0, label4 |-> 0]

(***************************************************************************)
(* Passwords                                                               *)
(***************************************************************************)
PASSWORDS == <<
    "ABOUT", "AFTER", "AGAIN", "BELOW", "COULD", "EVERY", "FIRST", "FOUND",
    "GREAT", "HOUSE", "LARGE", "LEARN", "NEVER", "OTHER", "PLACE", "PLANT",
    "POINT", "RIGHT", "SMALL", "SOUND", "SPELL", "STILL", "STUDY", "THEIR",
    "THERE", "THESE", "THINK", "THINK", "THREE", "WATER", "WHERE", "WHICH",
    "WORLD", "WOULD", "WRITE" >>

\* the characters of each table word
CharsOf ==
    "ABOUT" :> <<"A","B","O","U","T">> @@
    "AFTER" :> <<"A","F","T","E","R">> @@
    "AGAIN" :> <<"A","G","A","I","N">> @@
    "BELOW" :> <<"B","E","L","O","W">> @@
    "COULD" :> <<"C","O","U","L","D">> @@
    "EVERY" :> <<"E","V","E","R","Y">> @@
    "FIRST" :> <<"F","I","R","S","T">> @@
    "FOUND" :> <<"F","O","U","N","D">> @@
    "GREAT" :> <<"G","R","E","A","T">> @@
    "HOUSE" :> <<"H","O","U","S","E">> @@
    "LARGE" :> <<"L","A","R","G","E">> @@
    "LEARN" :> <<"L","E","A","R","N">> @@
    "NEVER" :> <<"N","E","V","E","R">> @@
    "OTHER" :> <<"O","T","H","E","R">> @@
    "PLACE" :> <<"P","L","A","C","E">> @@
    "PLANT" :> <<"P","L","A","N","T">> @@
    "POINT" :> <<"P","O","I","N","T">> @@
    "RIGHT" :> <<"R","I","G","H","T">> @@
    "SMALL" :> <<"S","M","A","L","L">> @@
    "SOUND" :> <<"S","O","U","N","D">> @@
    "SPELL" :> <<"S","P","E","L","L">> @@
    "STILL" :> <<"S","T","I","L","L">> @@
    "STUDY" :> <<"S","T","U","D","Y">> @@
    "THEIR" :> <<"T","H","E","I","R">> @@
    "THERE" :> <<"T","H","E","R","E">> @@
    "THESE" :> <<"T","H","E","S","E">> @@
    "THINK" :> <<"T","H","I","N","K">> @@
    "THREE" :> <<"T","H","R","E","E">> @@
    "WATER" :> <<"W","A","T","E","R">> @@
    "WHERE" :> <<"W","H","E","R","E">> @@
    "WHICH" :> <<"W","H","I","C","H">> @@
    "WORLD" :> <<"W","O","R","L","D">> @@
    "WOULD" :> <<"W","O","U","L","D">> @@
    "WRITE" :> <<"W","R","I","T","E">>

\* word.chars()
chars(word) == CharsOf[word]

PasswordDefault == <<<<>>, <<>>, <<>>, <<>>, <<>>>>

\* the on-screen keyboard of the android build, indexed from 0 in the source
KEYBOARD == <<
    "Q", "W", "E", "R", "T", "Y", "U", "I", "O", "P", "A", "S", "D", "F", "G",
    "H", "J", "K", "L", "Z", "X", "C", "V", "B", "N", "M" >>

(***************************************************************************)
(* Application::new                                                        *)
(***************************************************************************)
Init ==
    /\ module = "Menu"
    /\ state = 0
    /\ label = <<>>
    /\ keypad = <<>>
    /\ simon_says = SimonSaysDefault
    /\ memory = MemoryDefault
    /\ wire_sequence = WireSequenceDefault
    /\ password = PasswordDefault
    /\ panic = ""

(***************************************************************************)
(* Module::Menu                                                            *)
(***************************************************************************)
\* MenuEntryState without self.state = 0
MenuEntryStateKept(s) == s

\* the state a module button of the menu writes when clicked
MenuEntryState(s) == 0

\* a click on the menu button of module m
MenuSelect(m) ==
    /\ panic = ""
    /\ module = "Menu"
    /\ m \in MenuButtons
    /\ module' = m
    /\ state' = MenuEntryState(state)
    /\ UNCHANGED <<label, keypad, simon_says, memory, wire_sequence,
                   password, panic>>

(***************************************************************************)
(* Module::Wires                                                           *)
(***************************************************************************)
\* match self.state { 0..=4 => ..., s => panic!("Invalid state {s}.") }
WiresMatch(s) == IF s \in 0..4 THEN "" ELSE "Invalid state"

\* "Menu" clicked: state is 0 when the match runs
WiresMenu ==
    /\ panic = ""
    /\ module = "Wires"
    /\ module' = "Menu"
    /\ state' = 0
    /\ panic' = WiresMatch(0)
    /\ UNCHANGED <<label, keypad, simon_says, memory, wire_sequence, password>>

\* "Reset" is only drawn (and clickable) when state != 0
WiresReset ==
    /\ panic = ""
    /\ module = "Wires"
    /\ state # 0
    /\ state' = 0
    /\ panic' = WiresMatch(0)
    /\ UNCHANGED <<module, label, keypad, simon_says, memory, wire_sequence,
                   password>>

\* WiresNext counting the buttons from 0
WiresNextFromZero(n) == n - 3

\* the state the button for n wires ("3", "4", "5", "6") leads to
WiresNext(n) == n - 2

\* one of the buttons "3".."6", drawn in state 0
WiresChoose(n) ==
    /\ panic = ""
    /\ module = "Wires"
    /\ state = 0
    /\ n \in 3..6
    /\ state' = WiresNext(n)
    /\ UNCHANGED <<module, label, keypad, simon_says, memory, wire_sequence,
                   password, panic>>

\* a frame without input: only the match runs
WiresFrame ==
    /\ panic = ""
    /\ module = "Wires"
    /\ panic' = WiresMatch(state)
    /\ UNCHANGED <<module, state, label, keypad, simon_says, memory,
                   wire_sequence, password>>

(***************************************************************************)
(* Module::Button, MorseCode, Mazes, Knobs: a Menu button and a fixed text *)
(* or image                                                                *)
(***************************************************************************)
StaticModules == {"Button", "MorseCode", "Mazes", "Knobs"}

StaticMenu ==
    /\ panic = ""
    /\ module \in StaticModules
    /\ module' = "Menu"
    /\ UNCHANGED <<state, label, keypad, simon_says, memory, wire_sequence,
                   password, panic>>

(***************************************************************************)
(* Module::SimonSays                                                       *)
(***************************************************************************)
SimonSaysMenu ==
    /\ panic = ""
    /\ module = "SimonSays"
    /\ module' = "Menu"
    /\ simon_says' = SimonSaysDefault
    /\ UNCHANGED <<state, label, keypad, memory, wire_sequence, password, panic>>

\* SimonSaysReset clearing the settings too
SimonSaysResetAll ==
    /\ panic = ""
    /\ module = "SimonSays"
    /\ simon_says' = SimonSaysDefault
    /\ UNCHANGED <<module, state, label, keypad, memory, wire_sequence,
                   password, panic>>

SimonSaysReset ==
    /\ panic = ""
    /\ module = "SimonSays"
    /\ simon_says' = [simon_says EXCEPT !.entered = <<>>]
    /\ UNCHANGED <<module, state, label, keypad, memory, wire_sequence,
                   password, panic>>

\* the "Vowel" checkbox
SimonSaysVowel ==
    /\ panic = ""
    /\ module = "SimonSays"
    /\ simon_says' = [simon_says EXCEPT !.vowel = ~simon_says.vowel]
    /\ UNCHANGED <<module, state, label, keypad, memory, wire_sequence,
                   password, panic>>

\* the "Strikes" slider, range 0..=2
SimonSaysStrikes(v) ==
    /\ panic = ""
    /\ module = "SimonSays"
    /\ v \in 0..2
    /\ simon_says' = [simon_says EXCEPT !.strikes = v]
    /\ UNCHANGED <<module, state, label, keypad, memory, wire_sequence,
                   password, panic>>

\* SimonSaysPress putting the color in front of the list
SimonSaysPressFront(color) ==
    /\ panic = ""
    /\ module = "SimonSays"
    /\ simon_says' = [simon_says EXCEPT !.entered = <<color>> \o @]
    /\ UNCHANGED <<module, state, label, keypad, memory, wire_sequence,
                   password, panic>>

\* one of the four color buttons
SimonSaysPress(color) ==
    /\ panic = ""
    /\ module = "SimonSays"
    /\ simon_says' = [simon_says EXCEPT !.entered = Append(@, color)]
    /\ UNCHANGED <<module, state, label, keypad, memory, wire_sequence,
                   password, panic>>

\* the rows under "Flash" and "Press": one per entered color, with the color
\* convert gives it under the vowel flag and the strikes of this frame
SimonSaysRows(simon) ==
    [n \in 1..Len(simon.entered) |->
        <<simon.entered[n], convert(simon, simon.entered[n])>>]

(***************************************************************************)
(* Module::WhosOnFirst (three pick lists)                                  *)
(***************************************************************************)
WhosOnFirstMenu ==
    /\ panic = ""
    /\ module = "WhosOnFirst"
    /\ module' = "Menu"
    /\ UNCHANGED <<state, label, keypad, simon_says, memory, wire_sequence,
                   password, panic>>

\* the k-th displayed word, drawn in state 0
WhosOnFirstWord(k) ==
    /\ panic = ""
    /\ module = "WhosOnFirst"
    /\ state = 0
    /\ k \in 1..WHOS_ON_FIRST_POSITIONS_len
    /\ state' = k
    /\ UNCHANGED <<module, label, keypad, simon_says, memory, wire_sequence,
                   password, panic>>

\* WhosOnFirstButton counting from WHOS_ON_FIRST_POSITIONS.len()
WhosOnFirstButtonFromLen(j) ==
    /\ panic = ""
    /\ module = "WhosOnFirst"
    /\ state # 0
    /\ state <= WHOS_ON_FIRST_POSITIONS_len
    /\ j \in 1..WHOS_ON_FIRST_BUTTONS_len
    /\ state' = WHOS_ON_FIRST_POSITIONS_len + j - 1
    /\ UNCHANGED <<module, label, keypad, simon_says, memory, wire_sequence,
                   password, panic>>

\* the j-th button label, drawn in states 1..28
WhosOnFirstButton(j) ==
    /\ panic = ""
    /\ module = "WhosOnFirst"
    /\ state # 0
    /\ state <= WHOS_ON_FIRST_POSITIONS_len
    /\ j \in 1..WHOS_ON_FIRST_BUTTONS_len
    /\ state' = WHOS_ON_FIRST_POSITIONS_len + j
    /\ UNCHANGED <<module, label, keypad, simon_says, memory, wire_sequence,
                   password, panic>>

\* the pick list a state shows: 1 the displayed words, 2 the button labels
\* (under the position of the word picked), 3 the responses of a label;
\* nothing but "Menu" is drawn in a state above 56
WhosOnFirstStage(s) ==
    IF s = 0 THEN 1
    ELSE IF s <= WHOS_ON_FIRST_POSITIONS_len THEN 2
    ELSE IF s <= WHOS_ON_FIRST_POSITIONS_len + WHOS_ON_FIRST_BUTTONS_len THEN 3
    ELSE 0

\* the index of the response layout shown in the third stage
WhosOnFirstLayout(s) == s - WHOS_ON_FIRST_POSITIONS_len - 1

\* WhosOnFirstReset drawn in the second stage only
WhosOnFirstResetSecondStage ==
    /\ panic = ""
    /\ module = "WhosOnFirst"
    /\ state # 0
    /\ state <= WHOS_ON_FIRST_POSITIONS_len
    /\ state' = 0
    /\ UNCHANGED <<module, label, keypad, simon_says, memory, wire_sequence,
                   password, panic>>

\* "Reset", drawn in states 1..56
WhosOnFirstReset ==
    /\ panic = ""
    /\ module = "WhosOnFirst"
    /\ state # 0
    /\ state <= WHOS_ON_FIRST_POSITIONS_len + WHOS_ON_FIRST_BUTTONS_len
    /\ state' = 0
    /\ UNCHANGED <<module, label, keypad, simon_says, memory, wire_sequence,
                   password, panic>>

(***************************************************************************)
(* Module::ComplicatedWires                                                *)
(***************************************************************************)
\* bit i of s: s & (1 << i)
Bit(s, i) == (s \div (2 ^ i)) % 2

\* Xor adding the bit whether it is set or not
XorAdds(s, i) == s + 2 ^ i

\* Xor setting the bit: s | (1 << i)
XorSets(s, i) == IF Bit(s, i) = 0 THEN s + 2 ^ i ELSE s

\* s ^ (1 << i)
Xor(s, i) == IF Bit(s, i) = 0 THEN s + 2 ^ i ELSE s - 2 ^ i

\* the fill of button i: green when self.state & (1 << i) is not 0
Flag(s, i) == Bit(s, i) # 0

\* the text after "Cut when: "
ComplicatedWiresLabel(s) == COMPLICATED_WIRES[s + 1]

\* Self::COMPLICATED_WIRES[self.state] panics outside the table
ComplicatedWiresIndex(s) ==
    IF s < Len(COMPLICATED_WIRES) THEN "" ELSE "index out of bounds"

ComplicatedWiresMenu ==
    /\ panic = ""
    /\ module = "ComplicatedWires"
    /\ module' = "Menu"
    /\ state' = 0
    /\ panic' = ComplicatedWiresIndex(0)
    /\ UNCHANGED <<label, keypad, simon_says, memory, wire_sequence, password>>

ComplicatedWiresReset ==
    /\ panic = ""
    /\ module = "ComplicatedWires"
    /\ state' = 0
    /\ panic' = ComplicatedWiresIndex(0)
    /\ UNCHANGED <<module, label, keypad, simon_says, memory, wire_sequence,
                   password>>

\* the buttons "LED", "STAR", "BLUE", "RED" are i = 0, 1, 2, 3
ComplicatedWiresToggle(i) ==
    /\ panic = ""
    /\ module = "ComplicatedWires"
    /\ i \in 0..3
    /\ state' = Xor(state, i)
    /\ panic' = ComplicatedWiresIndex(Xor(state, i))
    /\ UNCHANGED <<module, label, keypad, simon_says, memory, wire_sequence,
                   password>>

\* a frame without input: the instruction is looked up
ComplicatedWiresFrame ==
    /\ panic = ""
    /\ module = "ComplicatedWires"
    /\ panic' = ComplicatedWiresIndex(state)
    /\ UNCHANGED <<module, state, label, keypad, simon_says, memory,
                   wire_sequence, password>>

(***************************************************************************)
(* Module::WireSequences                                                   *)
(***************************************************************************)
Channels == {"red", "blue", "black"}

WireSequencesMenu ==
    /\ panic = ""
    /\ module = "WireSequences"
    /\ module' = "Menu"
    /\ wire_sequence' = WireSequenceDefault
    /\ UNCHANGED <<state, label, keypad, simon_says, memory, password, panic>>

WireSequencesReset ==
    /\ panic = ""
    /\ module = "WireSequences"
    /\ wire_sequence' = WireSequenceDefault
    /\ UNCHANGED <<module, state, label, keypad, simon_says, memory, password,
                   panic>>

\* the offset of a channel's slice of WIRE_SEQUENCE
Offset(channel) ==
    CASE channel = "red"   -> 0
      [] channel = "blue"  -> 9
      [] channel = "black" -> 18

\* the index a channel's button text is read at: (counter + offset) as usize
WireSequenceIndex(ws, channel) == ws[channel] + Offset(channel)

\* a frame draws the three buttons: an index outside the table panics
WireSequencesDraw(ws) ==
    IF \A channel \in Channels :
           WireSequenceIndex(ws, channel) < Len(WIRE_SEQUENCE)
    THEN "" ELSE "index out of bounds"

\* Increment without the test counter < 8
IncrementUnguarded(counter) == counter + 1

\* Increment wrapping to 0 after 8
IncrementWraps(counter) == (counter + 1) % 9

\* clicked() && counter < 8 { counter += 1 }
Increment(counter) == IF counter < 8 THEN counter + 1 ELSE counter

\* the button of a channel; the three button texts are read with the
\* counters the frame starts with
WireSequencesClick(channel) ==
    /\ panic = ""
    /\ module = "WireSequences"
    /\ channel \in Channels
    /\ panic' = WireSequencesDraw(wire_sequence)
    /\ wire_sequence' = IF WireSequencesDraw(wire_sequence) = ""
                        THEN [wire_sequence EXCEPT ![channel] = Increment(@)]
                        ELSE wire_sequence
    /\ UNCHANGED <<module, state, label, keypad, simon_says, memory, password>>

\* WireSequencesSlider with every slider bound to the red counter
WireSequencesSliderRed(channel, v) ==
    /\ panic = ""
    /\ module = "WireSequences"
    /\ channel \in Channels
    /\ v \in 0..8
    /\ panic' = WireSequencesDraw(wire_sequence)
    /\ wire_sequence' = [wire_sequence EXCEPT !["red"] = v]
    /\ UNCHANGED <<module, state, label, keypad, simon_says, memory, password>>

\* the slider of a channel, range 0..=8
WireSequencesSlider(channel, v) ==
    /\ panic = ""
    /\ module = "WireSequences"
    /\ channel \in Channels
    /\ v \in 0..8
    /\ panic' = WireSequencesDraw(wire_sequence)
    /\ wire_sequence' = IF WireSequencesDraw(wire_sequence) = ""
                        THEN [wire_sequence EXCEPT ![channel] = v]
                        ELSE wire_sequence
    /\ UNCHANGED <<module, state, label, keypad, simon_says, memory, password>>

(***************************************************************************)
(* Module::Keypad                                                          *)
(***************************************************************************)
\* remap_clamp(p, min..=max, 0.0..=hi).floor() for the pointer at p/TapRes of
\* the image, hi given in thousandths (4.999 and 5.999)
remap_clamp_floor(p, hi) == (p * hi) \div (TapRes * 1000)

\* Self::KEYPAD_BUTTONS[y as usize][x as usize] for the pointer at (px, py)
TappedButton(px, py) ==
    KEYPAD_BUTTONS[remap_clamp_floor(py, 5999) + 1][remap_clamp_floor(px, 4999) + 1]

\* HasRoom with <= for <
HasRoomOffByOne(kp) == Cardinality(DOMAIN kp) <= 4

\* self.keypad.len() < 4
HasRoom(kp) == Cardinality(DOMAIN kp) < 4

\* Toggle without the remove
ToggleInsertOnly(kp, button) ==
    IF HasRoom(kp) THEN DOMAIN kp \cup {button} ELSE DOMAIN kp

\* if self.keypad.remove(&button).is_none() && self.keypad.len() < 4
\*     { self.keypad.insert(button, 0); }
\* the result is the set of keys; every value is set to 0 right after
Toggle(kp, button) ==
    IF button \in DOMAIN kp THEN DOMAIN kp \ {button}
    ELSE IF HasRoom(kp) THEN DOMAIN kp \cup {button}
    ELSE DOMAIN kp

\* the rows of a column list that hold a selected button
SelectedRows(keys, column) ==
    {row \in 1..7 : KEYPAD_COLUMNS[column][row] \in keys}

\* RankColumn writing the row index instead of the counter i
RankColumnByRow(keys, column) ==
    [b \in keys |->
        IF \E row \in 1..7 : KEYPAD_COLUMNS[column][row] = b
        THEN CHOOSE r \in 1..7 : KEYPAD_COLUMNS[column][r] = b
        ELSE 0]

\* the inner loop over the rows of one column, all values being 0 before:
\* a selected button of the column gets i, and i counts up from 1
RankColumn(keys, column) ==
    [b \in keys |->
        IF \E row \in 1..7 : KEYPAD_COLUMNS[column][row] = b
        THEN LET row == CHOOSE r \in 1..7 : KEYPAD_COLUMNS[column][r] = b
             IN  Cardinality({r \in SelectedRows(keys, column) : r <= row})
        ELSE 0]

\* Accepted with i > 3
AcceptedOffByOne(keys, column) == 1 + Cardinality(SelectedRows(keys, column)) > 3

\* if i > 4, for the i the inner loop ends with
Accepted(keys, column) == 1 + Cardinality(SelectedRows(keys, column)) > 4

RECURSIVE SeqOfSet(_)
SeqOfSet(S) ==
    IF S = {} THEN <<>>
    ELSE LET b == CHOOSE b \in S : TRUE IN <<b>> \o SeqOfSet(S \ {b})

\* pairs.sort_by(|a, b| a.1.cmp(b.1)): the keys by ascending value, from
\* value r upward (equal values keep the map's iteration order, which is
\* unspecified; accepted rankings have no equal values)
RECURSIVE SortedPairs(_, _)
SortedPairs(kp, r) ==
    IF r > 7 THEN <<>>
    ELSE SeqOfSet({b \in DOMAIN kp : kp[b] = r}) \o SortedPairs(kp, r + 1)

\* the fold over the sorted pairs: name, then " "
FoldNames(kp) ==
    LET pairs == SortedPairs(kp, 0)
    IN  [i \in 1..Len(pairs) |-> name(pairs[i])]

\* for column in 0..6 { ... }: the first accepted column ranks and labels,
\* every other column clears the values and the label
RECURSIVE ReRank(_, _)
ReRank(keys, column) ==
    IF column > 6 THEN [keypad |-> [b \in keys |-> 0], label |-> <<>>]
    ELSE IF Accepted(keys, column)
         THEN [keypad |-> RankColumn(keys, column),
               label  |-> FoldNames(RankColumn(keys, column))]
         ELSE ReRank(keys, column + 1)

\* KeypadMenu without self.label.clear()
KeypadMenuKeepsLabel ==
    /\ panic = ""
    /\ module = "Keypad"
    /\ module' = "Menu"
    /\ keypad' = <<>>
    /\ UNCHANGED <<state, label, simon_says, memory, wire_sequence, password,
                   panic>>

KeypadMenu ==
    /\ panic = ""
    /\ module = "Keypad"
    /\ module' = "Menu"
    /\ keypad' = <<>>
    /\ label' = <<>>
    /\ UNCHANGED <<state, simon_says, memory, wire_sequence, password, panic>>

KeypadReset ==
    /\ panic = ""
    /\ module = "Keypad"
    /\ keypad' = <<>>
    /\ label' = <<>>
    /\ UNCHANGED <<module, state, simon_says, memory, wire_sequence, password,
                   panic>>

\* Tapped without the test button != KeypadButton::None
TappedAnyCell(kp, lbl, px, py) == ReRank(Toggle(kp, TappedButton(px, py)), 1)

\* the selection and the label a click at (px, py) leaves: a cell holding
\* KeypadButton::None changes nothing, any other toggles and re-ranks
Tapped(kp, lbl, px, py) ==
    IF TappedButton(px, py) # "None"
    THEN ReRank(Toggle(kp, TappedButton(px, py)), 1)
    ELSE [keypad |-> kp, label |-> lbl]

\* a click on the keypad image with the pointer at (px, py)
KeypadTap(px, py) ==
    /\ panic = ""
    /\ module = "Keypad"
    /\ px \in 0..TapRes
    /\ py \in 0..TapRes
    /\ keypad' = Tapped(keypad, label, px, py).keypad
    /\ label' = Tapped(keypad, label, px, py).label
    /\ UNCHANGED <<module, state, simon_says, memory, wire_sequence, password,
                   panic>>

(***************************************************************************)
(* Module::Memory                                                          *)
(***************************************************************************)
\* match self.state { 0..=9 => ..., s => panic!("Invalid state {s}.") }
MemoryMatch(s) == IF s \in 0..9 THEN "" ELSE "Invalid state"

\* ArmEntry without self.memory = Memory::default()
ArmEntryKeeps(s, mem) == mem

\* arm 0 runs self.memory = Memory::default(); no other arm touches the
\* record before its buttons; s is the state the match is entered with
ArmEntry(s, mem) == IF s = 0 THEN MemoryDefault ELSE mem

\* "Menu" clicked: the match still runs, with the state unchanged
MemoryMenu ==
    /\ panic = ""
    /\ module = "Memory"
    /\ module' = "Menu"
    /\ memory' = ArmEntry(state, memory)
    /\ panic' = MemoryMatch(state)
    /\ UNCHANGED <<state, label, keypad, simon_says, wire_sequence, password>>

\* ResetState going back one stage only
ResetStateOneBack(s) == IF s = 0 THEN 0 ELSE s - 1

\* the state "Reset" writes
ResetState(s) == 0

\* "Reset" clicked: every arm 0..9 draws it first and sets state = 0; the
\* arm entered (that of the old state) then runs to its end
MemoryReset ==
    /\ panic = ""
    /\ module = "Memory"
    /\ state \in 0..9
    /\ state' = ResetState(state)
    /\ memory' = ArmEntry(state, memory)
    /\ UNCHANGED <<module, label, keypad, simon_says, wire_sequence, password,
                   panic>>

\* a frame without input
MemoryFrame ==
    /\ panic = ""
    /\ module = "Memory"
    /\ memory' = ArmEntry(state, memory)
    /\ panic' = MemoryMatch(state)
    /\ UNCHANGED <<module, state, label, keypad, simon_says, wire_sequence,
                   password>>

\* Stage1Position recording the displayed number itself
Stage1PositionIsNumber(k) == k

\* arm 0: "1: position 2", "2: position 2", "3: position 3", "4: position 4"
Stage1Position(k) ==
    CASE k = 1 -> 2
      [] k = 2 -> 2
      [] k = 3 -> 3
      [] k = 4 -> 4

MemoryStage1(k) ==
    /\ panic = ""
    /\ module = "Memory"
    /\ state = 0
    /\ k \in 1..4
    /\ memory' = [ArmEntry(state, memory) EXCEPT !.position1 = Stage1Position(k)]
    /\ state' = 1
    /\ UNCHANGED <<module, label, keypad, simon_says, wire_sequence, password,
                   panic>>

\* LabelArm recording the button's index from 0
LabelArmFromZero(s, mem, i) ==
    CASE s = 1 -> [state |-> 2, memory |-> [mem EXCEPT !.label1 = i - 1]]
      [] s = 3 -> [state |-> 5, memory |-> [mem EXCEPT !.label2 = i - 1]]
      [] s = 4 -> [state |-> 5, memory |-> [mem EXCEPT !.position2 = i - 1]]
      [] s = 6 -> [state |-> 7, memory |-> [mem EXCEPT !.label3 = i - 1]]
      [] s = 8 -> [state |-> 9, memory |-> [mem EXCEPT !.label4 = i - 1]]

\* arms 1, 3, 4, 6, 8: the buttons "1".."4" record a label or a position
LabelArm(s, mem, i) ==
    CASE s = 1 -> [state |-> 2, memory |-> [mem EXCEPT !.label1 = i]]
      [] s = 3 -> [state |-> 5, memory |-> [mem EXCEPT !.label2 = i]]
      [] s = 4 -> [state |-> 5, memory |-> [mem EXCEPT !.position2 = i]]
      [] s = 6 -> [state |-> 7, memory |-> [mem EXCEPT !.label3 = i]]
      [] s = 8 -> [state |-> 9, memory |-> [mem EXCEPT !.label4 = i]]

MemoryLabel(i) ==
    /\ panic = ""
    /\ module = "Memory"
    /\ state \in {1, 3, 4, 6, 8}
    /\ i \in 1..4
    /\ state' = LabelArm(state, memory, i).state
    /\ memory' = LabelArm(state, memory, i).memory
    /\ UNCHANGED <<module, label, keypad, simon_says, wire_sequence, password,
                   panic>>

\* Stage2Labels with the third button reading the recorded position
Stage2LabelsThirdRecorded(mem) ==
    << <<"label", 4>>, <<"position", mem.position1>>,
       <<"position", mem.position1>>, <<"position", mem.position1>> >>

\* arm 2: what the four buttons read after "1: ", "2: ", "3: ", "4: "
Stage2Labels(mem) ==
    << <<"label", 4>>, <<"position", mem.position1>>, <<"position", 1>>,
       <<"position", mem.position1>> >>

\* Stage2Arm with the first button leading where the other three lead
Stage2ArmAllToThree(mem, k) ==
    CASE k = 1 -> [state |-> 3, memory |-> [mem EXCEPT !.label2 = 4]]
      [] k = 2 -> [state |-> 3, memory |-> [mem EXCEPT !.position2 = mem.position1]]
      [] k = 3 -> [state |-> 3, memory |-> [mem EXCEPT !.position2 = 1]]
      [] k = 4 -> [state |-> 3, memory |-> [mem EXCEPT !.position2 = mem.position1]]

\* arm 2: "1: label 4", "2: position {position1}", "3: position 1",
\* "4: position {position1}"
Stage2Arm(mem, k) ==
    CASE k = 1 -> [state |-> 4, memory |-> [mem EXCEPT !.label2 = 4]]
      [] k = 2 -> [state |-> 3, memory |-> [mem EXCEPT !.position2 = mem.position1]]
      [] k = 3 -> [state |-> 3, memory |-> [mem EXCEPT !.position2 = 1]]
      [] k = 4 -> [state |-> 3, memory |-> [mem EXCEPT !.position2 = mem.position1]]

MemoryStage2(k) ==
    /\ panic = ""
    /\ module = "Memory"
    /\ state = 2
    /\ k \in 1..4
    /\ state' = Stage2Arm(memory, k).state
    /\ memory' = Stage2Arm(memory, k).memory
    /\ UNCHANGED <<module, label, keypad, simon_says, wire_sequence, password,
                   panic>>

\* Stage3Arm with the third button recording a label of its own
Stage3ArmThirdRecords(mem, k) ==
    CASE k = 1 -> [state |-> 7, memory |-> [mem EXCEPT !.label3 = mem.label2]]
      [] k = 2 -> [state |-> 7, memory |-> [mem EXCEPT !.label3 = mem.label1]]
      [] k = 3 -> [state |-> 6, memory |-> [mem EXCEPT !.label3 = 3]]
      [] k = 4 -> [state |-> 7, memory |-> [mem EXCEPT !.label3 = 4]]

\* arm 5: "1: label {label2}", "2: label {label1}", "3: position 3",
\* "4: label 4"
Stage3Arm(mem, k) ==
    CASE k = 1 -> [state |-> 7, memory |-> [mem EXCEPT !.label3 = mem.label2]]
      [] k = 2 -> [state |-> 7, memory |-> [mem EXCEPT !.label3 = mem.label1]]
      [] k = 3 -> [state |-> 6, memory |-> mem]
      [] k = 4 -> [state |-> 7, memory |-> [mem EXCEPT !.label3 = 4]]

MemoryStage3(k) ==
    /\ panic = ""
    /\ module = "Memory"
    /\ state = 5
    /\ k \in 1..4
    /\ state' = Stage3Arm(memory, k).state
    /\ memory' = Stage3Arm(memory, k).memory
    /\ UNCHANGED <<module, label, keypad, simon_says, wire_sequence, password,
                   panic>>

\* arm 7: each of the four buttons sets state = 8
MemoryStage4(k) ==
    /\ panic = ""
    /\ module = "Memory"
    /\ state = 7
    /\ k \in 1..4
    /\ state' = 8
    /\ UNCHANGED <<module, label, keypad, simon_says, memory, wire_sequence,
                   password, panic>>

\* Stage5Arm moving on to a further state
Stage5ArmAdvances(s, k) == s + 1

\* arm 9: let _ = ui.button(...): the state a click on button k leaves
Stage5Arm(s, k) == s

MemoryStage5(k) ==
    /\ panic = ""
    /\ module = "Memory"
    /\ state = 9
    /\ k \in 1..4
    /\ state' = Stage5Arm(state, k)
    /\ UNCHANGED <<module, label, keypad, simon_says, memory, wire_sequence,
                   password, panic>>

(***************************************************************************)
(* Module::Passwords                                                       *)
(***************************************************************************)
LOWER == <<"a","b","c","d","e","f","g","h","i","j","k","l","m",
           "n","o","p","q","r","s","t","u","v","w","x","y","z">>
UPPER == <<"A","B","C","D","E","F","G","H","I","J","K","L","M",
           "N","O","P","Q","R","S","T","U","V","W","X","Y","Z">>

\* make_ascii_uppercase leaving the text as typed
make_ascii_unchanged(text) == text

\* String::make_ascii_uppercase
make_ascii_uppercase(text) ==
    [n \in 1..Len(text) |->
        IF \E k \in 1..26 : LOWER[k] = text[n]
        THEN UPPER[CHOOSE k \in 1..26 : LOWER[k] = text[n]]
        ELSE text[n]]

\* Survives without the test for an empty field
SurvivesNoEmptyTest(word, pw) ==
    \A i \in 1..Len(chars(word)) :
        \E n \in 1..Len(pw[i]) : pw[i][n] = chars(word)[i]

\* Survives with the negation of contains dropped
SurvivesNotNegated(word, pw) ==
    \A i \in 1..Len(chars(word)) :
        ~(Len(pw[i]) > 0 /\ (\E n \in 1..Len(pw[i]) : pw[i][n] = chars(word)[i]))

\* Survives reading the field after the one of the character's position
SurvivesNextField(word, pw) ==
    \A i \in 1..Len(chars(word)) :
        ~(/\ Len(pw[(i % 5) + 1]) > 0
          /\ ~(\E n \in 1..Len(pw[(i % 5) + 1]) :
                  pw[(i % 5) + 1][n] = chars(word)[i]))

\* the closure of the filter: no character of the word is missing from a
\* non-empty field of its position
Survives(word, pw) ==
    \A i \in 1..Len(chars(word)) :
        ~(Len(pw[i]) > 0 /\ ~(\E n \in 1..Len(pw[i]) : pw[i][n] = chars(word)[i]))

\* FilterPasswords dropping a word equal to the one before it
FilterPasswordsDedup(pw) ==
    LET kept == SelectSeq(PASSWORDS, LAMBDA word : Survives(word, pw))
        idx == {n \in 1..Len(kept) : n = 1 \/ kept[n] # kept[n - 1]}
        RECURSIVE take(_)
        take(n) == IF n = 0 THEN <<>>
                   ELSE IF n \in idx THEN Append(take(n - 1), kept[n])
                   ELSE take(n - 1)
    IN  take(Len(kept))

\* PASSWORDS.iter().filter(..).fold(..): word, then " "
FilterPasswords(pw) == SelectSeq(PASSWORDS, LAMBDA word : Survives(word, pw))

\* the texts the model types into a field
SampleTexts == << <<>>, <<"t">>, <<"H", "o">>, <<"a", "w">> >>

Texts == {SampleTexts[k] : k \in 1..(IF MaxText < Len(SampleTexts)
                                     THEN MaxText ELSE Len(SampleTexts))}

\* PasswordsMenu without clearing the fields
PasswordsMenuKeepsFields ==
    /\ panic = ""
    /\ module = "Passwords"
    /\ module' = "Menu"
    /\ state' = 0
    /\ label' = <<>>
    /\ UNCHANGED <<keypad, simon_says, memory, wire_sequence, password, panic>>

PasswordsMenu ==
    /\ panic = ""
    /\ module = "Passwords"
    /\ module' = "Menu"
    /\ state' = 0
    /\ label' = <<>>
    /\ password' = PasswordDefault
    /\ UNCHANGED <<keypad, simon_says, memory, wire_sequence, panic>>

\* PasswordsReset running the filter on the cleared fields
PasswordsResetRefilters ==
    /\ panic = ""
    /\ module = "Passwords"
    /\ state' = 0
    /\ label' = FilterPasswords(PasswordDefault)
    /\ password' = PasswordDefault
    /\ UNCHANGED <<module, keypad, simon_says, memory, wire_sequence, panic>>

PasswordsReset ==
    /\ panic = ""
    /\ module = "Passwords"
    /\ state' = 0
    /\ label' = <<>>
    /\ password' = PasswordDefault
    /\ UNCHANGED <<module, keypad, simon_says, memory, wire_sequence, panic>>

\* the text of field i (0..4) is edited to text: response.changed()
PasswordsEdit(i, text) ==
    /\ panic = ""
    /\ module = "Passwords"
    /\ i \in 0..4
    /\ text # password[i + 1]
    /\ LET pw == [password EXCEPT ![i + 1] = make_ascii_uppercase(text)]
       IN  /\ password' = pw
           /\ label' = FilterPasswords(pw)
    /\ UNCHANGED <<module, state, keypad, simon_says, memory, wire_sequence,
                   panic>>

\* field i is clicked: response.clicked()
PasswordsClick(i) ==
    /\ panic = ""
    /\ module = "Passwords"
    /\ i \in 0..4
    /\ state' = i
    /\ UNCHANGED <<module, label, keypad, simon_says, memory, wire_sequence,
                   password, panic>>

\* self.password[self.state] panics outside the five fields
FocusedField(s) == IF s < 5 THEN "" ELSE "index out of bounds"

\* android build: key k (0..25) of the on-screen keyboard pushes its letter
\* to the focused field
PasswordsKey(k) ==
    /\ panic = ""
    /\ module = "Passwords"
    /\ k \in 0..25
    /\ panic' = FocusedField(state)
    /\ IF FocusedField(state) = ""
       THEN LET pw == [password EXCEPT ![state + 1] = Append(@, KEYBOARD[k + 1])]
            IN  /\ password' = pw
                /\ label' = FilterPasswords(pw)
       ELSE UNCHANGED <<password, label>>
    /\ UNCHANGED <<module, state, keypad, simon_says, memory, wire_sequence>>

\* String::pop: the last character, if any, is removed
pop(text) == IF Len(text) = 0 THEN text ELSE SubSeq(text, 1, Len(text) - 1)

\* android build: the backspace key of the on-screen keyboard
PasswordsBackspace ==
    /\ panic = ""
    /\ module = "Passwords"
    /\ panic' = FocusedField(state)
    /\ IF FocusedField(state) = ""
       THEN LET pw == [password EXCEPT ![state + 1] = pop(@)]
            IN  /\ password' = pw
                /\ label' = FilterPasswords(pw)
       ELSE UNCHANGED <<password, label>>
    /\ UNCHANGED <<module, state, keypad, simon_says, memory, wire_sequence>>

\* the texts and the keys specification SpecPasswords types and presses
TypedTexts == {<<>>, <<"a">>, <<"b">>, <<"t">>, <<"A", "b">>}
PressedKeys == {23}

(***************************************************************************)
(* Specifications                                                          *)
(***************************************************************************)
\* the whole application, every module with a bounded part of its inputs
Next ==
    \/ \E m \in MenuButtons : MenuSelect(m)
    \/ WiresMenu
    \/ WiresReset
    \/ \E n \in 3..6 : WiresChoose(n)
    \/ WiresFrame
    \/ StaticMenu
    \/ KeypadMenu
    \/ KeypadReset
    \/ \E px \in 0..TapRes, py \in 0..MaxTapPy : KeypadTap(px, py)
    \/ SimonSaysMenu
    \/ SimonSaysReset
    \/ SimonSaysVowel
    \/ \E v \in 0..2 : SimonSaysStrikes(v)
    \/ \E color \in {SimonColor[c] : c \in 1..4} :
          Len(simon_says.entered) < MaxEntered /\ SimonSaysPress(color)
    \/ WhosOnFirstMenu
    \/ \E k \in 1..WHOS_ON_FIRST_POSITIONS_len : WhosOnFirstWord(k)
    \/ \E j \in 1..WHOS_ON_FIRST_BUTTONS_len : WhosOnFirstButton(j)
    \/ WhosOnFirstReset
    \/ MemoryMenu
    \/ MemoryReset
    \/ MemoryFrame
    \/ \E k \in 1..4 : MemoryStage1(k)
    \/ \E i \in 1..MaxLabel : MemoryLabel(i)
    \/ \E k \in 1..4 : MemoryStage2(k)
    \/ \E k \in 1..4 : MemoryStage3(k)
    \/ \E k \in 1..4 : MemoryStage4(k)
    \/ \E k \in 1..4 : MemoryStage5(k)
    \/ ComplicatedWiresMenu
    \/ ComplicatedWiresReset
    \/ \E i \in 0..3 : ComplicatedWiresToggle(i)
    \/ ComplicatedWiresFrame
    \/ WireSequencesMenu
    \/ WireSequencesReset
    \/ \E channel \in Channels :
          wire_sequence[channel] < MaxWire /\ WireSequencesClick(channel)
    \/ \E channel \in Channels, v \in 0..MaxWire :
          WireSequencesSlider(channel, v)
    \/ PasswordsMenu
    \/ PasswordsReset
    \/ \E i \in 0..MaxField, text \in Texts : PasswordsEdit(i, text)
    \/ \E i \in 0..4 : PasswordsClick(i)

Spec == Init /\ [][Next]_vars

\* Memory with all its buttons, beside the other modules that write the
\* shared state without working memory of their own
NextMemory ==
    \/ \E m \in {"Memory", "WhosOnFirst", "Wires"} : MenuSelect(m)
    \/ MemoryMenu
    \/ MemoryReset
    \/ MemoryFrame
    \/ \E k \in 1..4 : MemoryStage1(k)
    \/ \E i \in 1..4 : MemoryLabel(i)
    \/ \E k \in 1..4 : MemoryStage2(k)
    \/ \E k \in 1..4 : MemoryStage3(k)
    \/ \E k \in 1..4 : MemoryStage4(k)
    \/ \E k \in 1..4 : MemoryStage5(k)
    \/ WhosOnFirstMenu
    \/ \E k \in {1, WHOS_ON_FIRST_POSITIONS_len} : WhosOnFirstWord(k)
    \/ \E j \in {1, WHOS_ON_FIRST_BUTTONS_len} : WhosOnFirstButton(j)
    \/ WhosOnFirstReset
    \/ WiresMenu
    \/ WiresReset
    \/ \E n \in 3..6 : WiresChoose(n)
    \/ WiresFrame

SpecMemory == Init /\ [][NextMemory]_vars

\* the modules that read a table at a computed index (Simon Says,
\* Complicated Wires, Wire Sequences) with all their inputs, beside Who's on
\* First, which leaves large values in the shared state
NextTables ==
    \/ \E m \in {"SimonSays", "ComplicatedWires", "WireSequences",
                  "WhosOnFirst"} : MenuSelect(m)
    \/ SimonSaysMenu
    \/ SimonSaysReset
    \/ SimonSaysVowel
    \/ \E v \in 0..2 : SimonSaysStrikes(v)
    \/ \E color \in {SimonColor[c] : c \in 1..4} :
          Len(simon_says.entered) < MaxPairs /\ SimonSaysPress(color)
    \/ ComplicatedWiresMenu
    \/ ComplicatedWiresReset
    \/ \E i \in 0..3 : ComplicatedWiresToggle(i)
    \/ ComplicatedWiresFrame
    \/ WireSequencesMenu
    \/ WireSequencesReset
    \/ \E channel \in Channels : WireSequencesClick(channel)
    \/ \E channel \in Channels, v \in 0..8 : WireSequencesSlider(channel, v)
    \/ WhosOnFirstMenu
    \/ \E k \in {1, WHOS_ON_FIRST_POSITIONS_len} : WhosOnFirstWord(k)
    \/ \E j \in {1, WHOS_ON_FIRST_BUTTONS_len} : WhosOnFirstButton(j)
    \/ WhosOnFirstReset

SpecTables == Init /\ [][NextTables]_vars

\* Passwords with all five fields edited, and the on-screen keyboard of the
\* android build on the fields 0..MaxField
NextPasswords ==
    \/ MenuSelect("Passwords")
    \/ PasswordsMenu
    \/ PasswordsReset
    \/ \E i \in 0..4, text \in TypedTexts : PasswordsEdit(i, text)
    \/ \E i \in 0..MaxField : PasswordsClick(i)
    \/ \E k \in PressedKeys :
          Len(password[state + 1]) < MaxKeyed /\ PasswordsKey(k)
    \/ PasswordsBackspace

SpecPasswords == Init /\ [][NextPasswords]_vars

\* the number of the last field the texts of FreeTexts are typed into
TypedFields == 2

\* texts of any kind typed into a field: letters of both cases, a digit, a
\* blank and the characters next to the letters in ASCII
FreeTexts ==
    { <<>>, <<"a">>, <<"A">>, <<"w", "1">>, <<" ", "z">>, <<"{", "-">>,
      <<"@", "[", "Z">> }

\* Passwords with texts of any kind typed into the first fields
NextTyping ==
    \/ MenuSelect("Passwords")
    \/ PasswordsMenu
    \/ PasswordsReset
    \/ \E i \in 0..TypedFields, text \in FreeTexts : PasswordsEdit(i, text)

SpecTyping == Init /\ [][NextTyping]_vars

\* Keypad with every pointer position, beside Passwords, the other module
\* that writes the shared label
NextKeypad ==
    \/ \E m \in {"Keypad", "Passwords"} : MenuSelect(m)
    \/ KeypadMenu
    \/ KeypadReset
    \/ \E px \in 0..TapRes, py \in 0..TapRes : KeypadTap(px, py)
    \/ PasswordsMenu
    \/ PasswordsReset
    \/ \E i \in 0..4, text \in Texts : PasswordsEdit(i, text)
    \/ \E i \in 0..4 : PasswordsClick(i)

SpecKeypad == Init /\ [][NextKeypad]_vars

(***************************************************************************)
(* Claims                                                                  *)
(***************************************************************************)

\* C1: update never reaches panic!("Invalid state"): the shared state is in
\* 0..4 whenever Wires is the active module and in 0..9 whenever Memory is,
\* whatever the other modules wrote into it.
C1_StateInRange ==
    /\ panic # "Invalid state"
    /\ module = "Wires" => state \in 0..4
    /\ module = "Memory" => state \in 0..9

\* the menu is shown while the shared state holds a value outside both ranges
C1_Witness == module = "Menu" /\ state > 9

\* C2: a module selected from the menu starts from its initial state: at the
\* selection the shared state becomes 0 and the keypad selection, the label,
\* the Simon-Says state, the wire-sequence counters and the password fields
\* are at their defaults; and the first frame of Memory (state 0) shows a
\* record holding nothing but what that frame's own click recorded.
C2_EntryIsInitial ==
    [][ /\ (module = "Menu" /\ module' # "Menu") =>
              /\ state' = 0
              /\ keypad' = <<>>
              /\ label' = <<>>
              /\ simon_says' = SimonSaysDefault
              /\ wire_sequence' = WireSequenceDefault
              /\ password' = PasswordDefault
        /\ (module = "Memory" /\ state = 0) =>
              /\ memory' = [MemoryDefault EXCEPT !.position1 = memory'.position1]
              /\ memory'.position1 # 0 => state' = 1
      ]_vars

\* Memory is active in state 0 with a complete record of an earlier visit
C2_Witness == module = "Memory" /\ state = 0 /\ memory.label4 # 0

\* what a module's state and working memory are when they are initial
InitialOf(m, st, lbl, kp, simon, mem, wires, pw) ==
    /\ st = 0
    /\ m = "Keypad" => kp = <<>> /\ lbl = <<>>
    /\ m = "SimonSays" => simon = SimonSaysDefault
    /\ m = "Memory" => mem = MemoryDefault
    /\ m = "WireSequences" => wires = WireSequenceDefault
    /\ m = "Passwords" => pw = PasswordDefault /\ lbl = <<>>

\* C3 as claimed: a click on Menu leaves the state and the working memory of
\* the module it was clicked in at their initial values, in every module.
C3_MenuResetsEveryModule ==
    [][ (module # "Menu" /\ module' = "Menu") =>
            InitialOf(module, state', label', keypad', simon_says', memory',
                      wire_sequence', password')
      ]_vars

\* C3 as amended: that holds in every module but WhosOnFirst and Memory; a
\* click on Menu in WhosOnFirst leaves the shared state as it is, and in
\* Memory it leaves the state as it is and clears the record only when the
\* state is 0.
C3_MenuResetsButTwo ==
    [][ (module # "Menu" /\ module' = "Menu") =>
            /\ module \notin {"WhosOnFirst", "Memory"} =>
                  InitialOf(module, state', label', keypad', simon_says',
                            memory', wire_sequence', password')
            /\ module \in {"WhosOnFirst", "Memory"} => state' = state
            /\ module = "Memory" =>
                  memory' = IF state = 0 THEN MemoryDefault ELSE memory
      ]_vars

\* the menu is shown with the state and the record a Memory visit left
C3_Witness == module = "Menu" /\ state \in 1..9 /\ memory.label1 # 0

(***************************************************************************)
(* Keypad claims                                                           *)
(***************************************************************************)
\* the buttons of a column list
ColumnSet(column) == {KEYPAD_COLUMNS[column][row] : row \in 1..7}

\* the column lists that hold every selected button
Explaining(kp) == {column \in 1..6 : DOMAIN kp \subseteq ColumnSet(column)}

\* C4: the keypad selection never holds more than 4 symbols, and while 4 are
\* selected no step adds a symbol: a tap on an unselected symbol leaves the
\* selection as it is, and a further symbol gets in only after one of the 4
\* is toggled off or the selection is cleared.
C4_AtMostFour ==
    /\ Cardinality(DOMAIN keypad) <= 4
    /\ [][ /\ Cardinality(DOMAIN keypad') <= 4
           /\ Cardinality(DOMAIN keypad) = 4 =>
                  DOMAIN keypad' \subseteq DOMAIN keypad
         ]_vars

\* four symbols are selected
C4_Witness == Cardinality(DOMAIN keypad) = 4

\* C5: when no column list holds all the selected symbols, nothing is
\* ranked: every selected symbol has rank 0 and the label is empty.
C5_NoColumnNoRanking ==
    Explaining(keypad) = {} =>
        /\ \A b \in DOMAIN keypad : keypad[b] = 0
        /\ label = <<>>

\* four symbols are selected, three of them in one column list, and no column
\* list holds all four
C5_Witness ==
    /\ Cardinality(DOMAIN keypad) = 4
    /\ Explaining(keypad) = {}
    /\ \E column \in 1..6 : Cardinality(DOMAIN keypad \cap ColumnSet(column)) = 3

\* the rank a button has by its order of appearance in a column list
OrderIn(kp, column, b) ==
    Cardinality({row \in 1..7 :
        /\ KEYPAD_COLUMNS[column][row] \in DOMAIN kp
        /\ \E r \in row..7 : KEYPAD_COLUMNS[column][r] = b})

\* the selection is ranked by the first column list that holds all of it, and
\* the label holds the display names in that order
RankedByFirst(kp, lbl) ==
    LET column == CHOOSE c \in Explaining(kp) : \A d \in Explaining(kp) : c <= d
    IN  /\ \A b \in DOMAIN kp : kp[b] = OrderIn(kp, column, b)
        /\ Len(lbl) = Cardinality(DOMAIN kp)
        /\ \A b \in DOMAIN kp : lbl[OrderIn(kp, column, b)] = name(b)

\* C6 as claimed: whenever some column list holds all the selected symbols,
\* they are ranked by the first such column and the label lists their names.
C6_RankedWheneverExplained ==
    (module = "Keypad" /\ keypad # <<>> /\ Explaining(keypad) # {})
        => RankedByFirst(keypad, label)

\* C6 as amended: that holds when exactly four symbols are selected; with
\* fewer than four selected nothing is ranked and the label is empty.
C6_RankedWhenFour ==
    /\ (Cardinality(DOMAIN keypad) = 4 /\ Explaining(keypad) # {})
          => RankedByFirst(keypad, label)
    /\ (module = "Keypad" /\ Cardinality(DOMAIN keypad) < 4) =>
          /\ \A b \in DOMAIN keypad : keypad[b] = 0
          /\ label = <<>>

\* four symbols of the fourth column list are selected, tapped out of order
C6_Witness ==
    /\ DOMAIN keypad = {"Smile", "X", "N6", "Person"}
    /\ label = <<"6", "Person", "X", "Smile">>

(***************************************************************************)
(* Memory claims                                                           *)
(***************************************************************************)
\* C7 as claimed: a click on Reset in Memory, from any state 0..9, leaves
\* state 0 and all six recorded values cleared.
C7_ResetClearsAtOnce ==
    [][ MemoryReset => (state' = 0 /\ memory' = MemoryDefault) ]_vars

\* C7 as amended: a click on Reset in Memory, from any state 0..9, leaves
\* state 0; the record is cleared by that click only when the state was 0
\* already, and is otherwise left as it is until the next frame, which (being
\* a frame in state 0) clears all six values together unless it panics.
C7_ResetThenFrameClears ==
    [][ /\ MemoryReset =>
            /\ state' = 0
            /\ memory' = IF state = 0 THEN MemoryDefault ELSE memory
        /\ (module = "Memory" /\ state = 0 /\ state' = 0) =>
            memory' = MemoryDefault
      ]_vars

\* Reset was clicked after the first label was recorded
C7_Witness ==
    module = "Memory" /\ state = 0 /\ memory.label1 # 0 /\ memory.label2 = 0

\* C8 as claimed: every recorded value lies in 1..4, in every reachable state.
C8_ValuesIn1to4 ==
    /\ memory.position1 \in 1..4
    /\ memory.position2 \in 1..4
    /\ memory.label1 \in 1..4
    /\ memory.label2 \in 1..4
    /\ memory.label3 \in 1..4
    /\ memory.label4 \in 1..4

\* C8 as amended: every recorded value lies in 1..4 or is 0, the value of a
\* field that is not recorded yet; while Memory is active, a field whose
\* stage is passed holds a value in 1..4.
C8_ValuesIn1to4OrUnset ==
    /\ memory.position1 \in 0..4
    /\ memory.position2 \in 0..4
    /\ memory.label1 \in 0..4
    /\ memory.label2 \in 0..4
    /\ memory.label3 \in 0..4
    /\ memory.label4 \in 0..4
    /\ module = "Memory" =>
        /\ state >= 1 => memory.position1 \in 1..4
        /\ state >= 2 => memory.label1 \in 1..4
        /\ state >= 5 => memory.position2 \in 1..4 /\ memory.label2 \in 1..4
        /\ state >= 7 => memory.label3 \in 1..4
        /\ state >= 9 => memory.label4 \in 1..4

\* the last stage is reached with the largest label and the smallest position
C8_Witness ==
    module = "Memory" /\ state = 9 /\ memory.label4 = 4 /\ memory.position2 = 1

\* C9: in Memory state 0 the options for the displayed numbers 1, 2, 3, 4
\* record position1 = 2, 2, 3, 4, leave the other five values unset and lead
\* to state 1.
C9_Stage1Records ==
    [][ \A k \in 1..4 : MemoryStage1(k) =>
            /\ state' = 1
            /\ memory' = [position1 |-> <<2, 2, 3, 4>>[k], position2 |-> 0,
                          label1 |-> 0, label2 |-> 0, label3 |-> 0,
                          label4 |-> 0]
      ]_vars

\* "3: position 3" was clicked
C9_Witness ==
    module = "Memory" /\ state = 1 /\ memory.position1 = 3 /\ memory.label1 = 0

\* C10: Memory state 9 is terminal: a click on one of its four option
\* buttons changes neither the state nor the record, and a step that leaves
\* state 9 is a click on Reset; the module is left by a click on Menu only.
C10_Stage5Terminal ==
    [][ (module = "Memory" /\ state = 9) =>
            /\ \A k \in 1..4 : MemoryStage5(k) => UNCHANGED <<state, memory>>
            /\ state' # 9 => MemoryReset
            /\ module' # "Memory" => MemoryMenu
            /\ memory' = memory
            /\ panic' = ""
      ]_vars

\* the last stage is shown
C10_Witness == module = "Memory" /\ state = 9 /\ memory.label3 = 2

(***************************************************************************)
(* Passwords                                                               *)
(***************************************************************************)
\* the letters of a field
Letters(text) == {text[n] : n \in 1..Len(text)}

\* the words of a label
Words(lbl) == {lbl[n] : n \in 1..Len(lbl)}

\* a word satisfies the fields: at every position 0..4 whose field is not
\* empty, the letter of the word is one of the field's letters
Satisfies(word, pw) ==
    \A p \in 0..4 :
        pw[p + 1] # <<>> => chars(word)[p + 1] \in Letters(pw[p + 1])

Candidates(pw) == {PASSWORDS[n] : n \in {m \in 1..Len(PASSWORDS) :
                                          Satisfies(PASSWORDS[m], pw)}}

\* a step of Passwords that edits a field (typed or by the on-screen
\* keyboard): the fields or the output change and it is not a Reset
PasswordsEdited ==
    /\ module = "Passwords"
    /\ module' = "Passwords"
    /\ panic' = ""
    /\ <<password', label'>> # <<password, label>>
    /\ ~PasswordsReset

\* C11: after any edit of a password field the output is exactly the words
\* of the 35-word table that satisfy the fields; with field 0 = "A", field
\* 1 = "B" and the rest empty it is exactly the table words whose first
\* letter is A and whose second letter is B.
C11_OutputIsFilter ==
    [][ PasswordsEdited =>
          /\ label' = SelectSeq(PASSWORDS,
                                LAMBDA word : Satisfies(word, password'))
          /\ password' = << <<"A">>, <<"B">>, <<>>, <<>>, <<>> >> =>
                label' = SelectSeq(PASSWORDS, LAMBDA word :
                            chars(word)[1] = "A" /\ chars(word)[2] = "B")
      ]_vars

\* field 0 holds "A", field 1 holds "B": ABOUT is the one word left
C11_Witness ==
    /\ module = "Passwords"
    /\ password = << <<"A">>, <<"B">>, <<>>, <<>>, <<>> >>
    /\ label = <<"ABOUT">>

\* an edit that adds one letter at the end of field i (1..5)
AddsLetter(i) ==
    /\ PasswordsEdited
    /\ Len(password'[i]) = Len(password[i]) + 1
    /\ SubSeq(password'[i], 1, Len(password[i])) = password[i]
    /\ \A j \in 1..5 : j # i => password'[j] = password[j]

\* C12 as claimed: an edit that adds one letter to any of the five fields
\* gives a candidate set that is a subset of the set of words satisfying
\* the fields before the edit.
C12_AddingShrinks ==
    [][ \A i \in 1..5 : AddsLetter(i) =>
            Words(label') \subseteq Candidates(password) ]_vars

\* C12 as amended: a letter added to an empty field gives a subset of the
\* words satisfying the fields before the edit; a letter added to a field
\* that is not empty gives a superset of them.
C12_AddingShrinksOnlyEmptyField ==
    [][ \A i \in 1..5 : AddsLetter(i) =>
            IF password[i] = <<>>
            THEN Words(label') \subseteq Candidates(password)
            ELSE Candidates(password) \subseteq Words(label') ]_vars

\* "B" was added to field 0 = "A": BELOW joined the three words with A
C12_Witness ==
    /\ module = "Passwords"
    /\ password = << <<"A", "B">>, <<>>, <<>>, <<>>, <<>> >>
    /\ label = <<"ABOUT", "AFTER", "AGAIN", "BELOW">>

\* an edit that makes field i (1..5) empty and leaves the other fields
ClearsField(i) ==
    /\ PasswordsEdited
    /\ password[i] # <<>>
    /\ password'[i] = <<>>
    /\ \A j \in 1..5 : j # i => password'[j] = password[j]

C14_TableOrderWithDuplicate ==
    [][ PasswordsEdited =>
          /\ label' = SelectSeq(PASSWORDS, LAMBDA word : word \in Words(label'))
          /\ Satisfies("THINK", password') =>
                \E n \in 1..(Len(label') - 1) :
                    /\ label'[n] = "THINK"
                    /\ label'[n + 1] = "THINK"
                    /\ PASSWORDS[27] = "THINK" /\ PASSWORDS[28] = "THINK"
      ]_vars

\* field 0 holds "T": THINK stands twice among the words with T
C14_Witness ==
    /\ module = "Passwords"
    /\ password[1] = <<"T">>
    /\ label = <<"THEIR", "THERE", "THESE", "THINK", "THINK", "THREE">>

(***************************************************************************)
(* Simon Says                                                              *)
(***************************************************************************)
\* Red = 0, Blue = 1, Green = 2, Yellow = 3
ColorNumber(color) == (CHOOSE c \in 1..4 : SimonColor[c] = color) - 1

\* (vowel ? 12 : 0) + strikes * 4 + the number of the color
TableIndex(vowel, strikes, color) ==
    (IF vowel THEN 12 ELSE 0) + strikes * 4 + ColorNumber(color)

\* C15: in every reachable state the strikes are in 0..2 and every color is
\* translated to TABLE[(vowel ? 12 : 0) + strikes * 4 + color number], an
\* index within 0..23; without vowel and with 0 strikes Red gives Blue, with
\* vowel and 2 strikes Yellow gives Blue; the rows shown pair each entered
\* color with that translation.
C15_TranslationByTable ==
    /\ simon_says.strikes \in 0..2
    /\ \A c \in 1..4 :
         LET index == TableIndex(simon_says.vowel, simon_says.strikes,
                                 SimonColor[c])
         IN  /\ index \in 0..23
             /\ convert(simon_says, SimonColor[c]) = TABLE[index + 1]
    /\ (~simon_says.vowel /\ simon_says.strikes = 0) =>
           convert(simon_says, "Red") = "Blue"
    /\ (simon_says.vowel /\ simon_says.strikes = 2) =>
           convert(simon_says, "Yellow") = "Blue"
    /\ \A n \in 1..Len(simon_says.entered) :
         SimonSaysRows(simon_says)[n] =
            <<simon_says.entered[n],
              TABLE[TableIndex(simon_says.vowel, simon_says.strikes,
                               simon_says.entered[n]) + 1]>>

\* Yellow is entered with the vowel flag set and 2 strikes
C15_Witness ==
    /\ module = "SimonSays"
    /\ simon_says = [strikes |-> 2, vowel |-> TRUE, entered |-> <<"Yellow">>]
    /\ SimonSaysRows(simon_says) = << <<"Yellow", "Blue">> >>

\* a step inside Simon Says that is not a Reset emptying the list
SimonSaysInput ==
    /\ module = "SimonSays"
    /\ module' = "SimonSays"
    /\ ~(simon_says.entered # <<>> /\ simon_says'.entered = <<>>)

\* C16 as claimed: between two Resets every input leaves the rows shown
\* before as they are and appends at most one row.
C16_RowsAppendOnly ==
    [][ SimonSaysInput =>
          LET old == SimonSaysRows(simon_says)
              new == SimonSaysRows(simon_says')
          IN  /\ Len(new) \in {Len(old), Len(old) + 1}
              /\ SubSeq(new, 1, Len(old)) = old
      ]_vars

\* C16 as amended: between two Resets every input leaves the entered colors
\* as they are and appends at most one; a color press leaves the rows shown
\* before as they are and appends one row; a strikes change or a vowel
\* toggle keeps the number of rows and translates every entered color anew
\* under the new settings.
C16_EnteredAppendOnly ==
    [][ SimonSaysInput =>
          LET old == SimonSaysRows(simon_says)
              new == SimonSaysRows(simon_says')
          IN  /\ Len(new) \in {Len(old), Len(old) + 1}
              /\ \A n \in 1..Len(old) : new[n][1] = old[n][1]
              /\ \A n \in 1..Len(new) :
                    new[n][2] = TABLE[TableIndex(simon_says'.vowel,
                                                simon_says'.strikes,
                                                new[n][1]) + 1]
              /\ Len(new) = Len(old) + 1 =>
                    SubSeq(new, 1, Len(old)) = old
              /\ (simon_says'.vowel = simon_says.vowel /\
                  simon_says'.strikes = simon_says.strikes) =>
                    SubSeq(new, 1, Len(old)) = old
      ]_vars

\* Red then Blue were entered and the strikes were then set to 1
C16_Witness ==
    /\ module = "SimonSays"
    /\ simon_says = [strikes |-> 1, vowel |-> FALSE,
                     entered |-> <<"Red", "Blue">>]
    /\ SimonSaysRows(simon_says) = << <<"Red", "Red">>, <<"Blue", "Blue">> >>

\* C17: a click on Reset in Simon Says empties the entered list and leaves
\* the strikes and the vowel flag as they are.
C17_ResetKeepsSettings ==
    [][ /\ SimonSaysReset => simon_says'.entered = <<>>
        /\ (/\ module = "SimonSays" /\ module' = "SimonSays"
            /\ simon_says.entered # <<>> /\ simon_says'.entered = <<>>) =>
              /\ simon_says'.strikes = simon_says.strikes
              /\ simon_says'.vowel = simon_says.vowel
      ]_vars

\* the list is empty under settings that are not the defaults
C17_Witness ==
    /\ module = "SimonSays"
    /\ simon_says = [strikes |-> 2, vowel |-> TRUE, entered |-> <<>>]

(***************************************************************************)
(* Complicated Wires                                                       *)
(***************************************************************************)
\* LED * 1 + STAR * 2 + BLUE * 4 + RED * 8 of the flags a state shows
FlagSum(s) ==
    (IF Flag(s, 0) THEN 1 ELSE 0) + (IF Flag(s, 1) THEN 2 ELSE 0)
    + (IF Flag(s, 2) THEN 4 ELSE 0) + (IF Flag(s, 3) THEN 8 ELSE 0)

\* C18: while Complicated Wires is active the index read is within 0..15
\* (the lookup never panics) and the instruction shown is the table entry at
\* LED * 1 + STAR * 2 + BLUE * 4 + RED * 8 of the flags shown.
C18_InstructionByFlags ==
    /\ panic # "index out of bounds"
    /\ module = "ComplicatedWires" =>
          /\ state \in 0..15
          /\ FlagSum(state) \in 0..15
          /\ Len(COMPLICATED_WIRES) = 16
          /\ ComplicatedWiresLabel(state) = COMPLICATED_WIRES[FlagSum(state) + 1]

\* all four flags are set
C18_Witness ==
    /\ module = "ComplicatedWires"
    /\ \A i \in 0..3 : Flag(state, i)
    /\ ComplicatedWiresLabel(state) = "NEVER"

\* C19: a toggle of flag i changes flag i and none of the other three; the
\* same toggle again would restore the flags and the instruction, and
\* from every state two toggles in either order lead to the same flags and
\* instruction.
C19_TogglesCommute ==
    [][ \A i \in 0..3 : ComplicatedWiresToggle(i) =>
          /\ Flag(state', i) # Flag(state, i)
          /\ \A j \in 0..3 : j # i => Flag(state', j) = Flag(state, j)
          /\ Xor(state', i) = state
          /\ ComplicatedWiresLabel(Xor(state', i)) = ComplicatedWiresLabel(state)
          /\ \A j \in 0..3 :
                /\ Xor(Xor(state, i), j) = Xor(Xor(state, j), i)
                /\ ComplicatedWiresLabel(Xor(state', j)) =
                       ComplicatedWiresLabel(Xor(Xor(state, j), i))
      ]_vars

\* STAR and BLUE are set
C19_Witness ==
    /\ module = "ComplicatedWires"
    /\ state = 6
    /\ Flag(state, 1) /\ Flag(state, 2) /\ ~Flag(state, 0) /\ ~Flag(state, 3)

(***************************************************************************)
(* Wire Sequences                                                          *)
(***************************************************************************)
\* C20: every counter lies in 0..8 in every reachable state, and the
\* indices read, red + 0, blue + 9 and black + 18, lie in the slices 0..8,
\* 9..17 and 18..26 of the 27 entries of the table.
C20_CountersInSlices ==
    /\ panic # "index out of bounds"
    /\ Len(WIRE_SEQUENCE) = 27
    /\ \A channel \in Channels : wire_sequence[channel] \in 0..8
    /\ WireSequenceIndex(wire_sequence, "red") \in 0..8
    /\ WireSequenceIndex(wire_sequence, "blue") \in 9..17
    /\ WireSequenceIndex(wire_sequence, "black") \in 18..26

\* all three counters are at their largest value
C20_Witness ==
    /\ module = "WireSequences"
    /\ wire_sequence = [red |-> 8, blue |-> 8, black |-> 8]

\* C21: an increment click on a channel adds exactly 1 to its counter while
\* the counter is below 8, so that eight clicks from 0 pass 1, 2, ..., 8 in
\* order, and a click at 8 leaves the counter at 8.
C21_IncrementSaturates ==
    [][ \A channel \in Channels : WireSequencesClick(channel) =>
          /\ wire_sequence[channel] < 8 =>
                wire_sequence'[channel] = wire_sequence[channel] + 1
          /\ wire_sequence[channel] = 8 => wire_sequence'[channel] = 8
          /\ wire_sequence'[channel] \in 1..8
      ]_vars

\* the red counter was clicked up to 8, the others were left at 0
C21_Witness ==
    /\ module = "WireSequences"
    /\ wire_sequence = [red |-> 8, blue |-> 0, black |-> 0]

\* C22: an increment click or a slider set on one channel leaves the
\* counters of the other two channels as they are.
C22_CountersIndependent ==
    [][ \A channel \in Channels :
          (\/ WireSequencesClick(channel)
           \/ \E v \in 0..8 : WireSequencesSlider(channel, v)) =>
             \A other \in Channels \ {channel} :
                wire_sequence'[other] = wire_sequence[other]
      ]_vars

\* the three counters hold three different values
C22_Witness ==
    /\ module = "WireSequences"
    /\ wire_sequence = [red |-> 1, blue |-> 5, black |-> 8]

\* a click on the "Menu" button of whatever module is shown
MenuClick ==
    \/ WiresMenu
    \/ StaticMenu
    \/ KeypadMenu
    \/ SimonSaysMenu
    \/ WhosOnFirstMenu
    \/ MemoryMenu
    \/ ComplicatedWiresMenu
    \/ WireSequencesMenu
    \/ PasswordsMenu

\* a click on the "Reset" button of whatever module is shown
ResetClick ==
    \/ WiresReset
    \/ KeypadReset
    \/ SimonSaysReset
    \/ WhosOnFirstReset
    \/ MemoryReset
    \/ ComplicatedWiresReset
    \/ WireSequencesReset
    \/ PasswordsReset

\* the modules that draw "Reset" in every state
AlwaysResettable ==
    {"Keypad", "SimonSays", "Memory", "ComplicatedWires", "WireSequences",
     "Passwords"}

\* the modules that draw "Reset" in every state but state 0
ResettableOffZero == {"Wires", "WhosOnFirst"}

\* C23 as stated: in every state of every module other than the menu both
\* "Menu" and "Reset" can be clicked.
C23_MenuAndResetEverywhere ==
    (module # "Menu" /\ panic = "") => ENABLED MenuClick /\ ENABLED ResetClick

\* C23: in every state of every module other than the menu "Menu" can be
\* clicked and leads to the menu. "Reset" can be clicked in every state of
\* Keypad, SimonSays, Memory, ComplicatedWires, WireSequences and Passwords
\* and in every state but state 0 of Wires and WhosOnFirst; it cannot be
\* clicked in state 0 of these two nor in Button, MorseCode, Mazes and Knobs.
\* "Reset" keeps the module and leads to state 0 with the keypad symbols,
\* the entered Simon-Says colors, the wire counters or the password fields
\* of the module empty.
C23_MenuEverywhereResetWhereDrawn ==
    /\ [](module # "Menu" /\ panic = "" =>
            /\ ENABLED MenuClick
            /\ (ENABLED ResetClick) <=>
                  \/ module \in AlwaysResettable
                  \/ module \in ResettableOffZero /\ state # 0)
    /\ [][ /\ MenuClick => module' = "Menu"
           /\ ResetClick =>
                /\ module' = module
                /\ state' = 0
                /\ module = "Keypad" => keypad' = <<>>
                /\ module = "SimonSays" => simon_says'.entered = <<>>
                /\ module = "WireSequences" =>
                      \A channel \in Channels : wire_sequence'[channel] = 0
                /\ module = "Passwords" =>
                      \A i \in 1..5 : password'[i] = <<>>
       ]_vars

\* the response list of the last label of Who's on First is shown
C23_Witness ==
    /\ module = "WhosOnFirst"
    /\ state = WHOS_ON_FIRST_POSITIONS_len + WHOS_ON_FIRST_BUTTONS_len
    /\ ENABLED ResetClick
    /\ ENABLED MenuClick

\* C24: Wires has the five states 0..4. From state 0 the buttons for 3, 4, 5
\* and 6 wires lead to the states 1, 2, 3 and 4; in the states 1..4 the
\* state changes only by "Reset" or "Menu", both to 0.
C24_WiresChooser ==
    /\ [](module = "Wires" => state \in 0..4)
    /\ [][ /\ \A n \in 3..6 : WiresChoose(n) =>
                /\ state = 0
                /\ state' = CASE n = 3 -> 1 [] n = 4 -> 2 [] n = 5 -> 3
                              [] n = 6 -> 4
           /\ (module = "Wires" /\ state \in 1..4 /\ state' # state) =>
                /\ state' = 0
                /\ WiresReset \/ WiresMenu
       ]_vars

\* the rule for six wires is shown
C24_Witness == module = "Wires" /\ state = 4

\* C25: in Who's on First picking the k-th word (1..28) leads to state k,
\* picking the j-th label (1..28) there leads to state 28 + j, which shows
\* the response list of label j; the third stage takes no pick, the state
\* never exceeds 56, and "Reset" in the second or third stage leads to
\* state 0.
C25_GuidedStages ==
    /\ [](module = "WhosOnFirst" => state \in 0..56)
    /\ [][ module = "WhosOnFirst" =>
           /\ \A k \in 1..28 : WhosOnFirstWord(k) =>
                 /\ WhosOnFirstStage(state) = 1
                 /\ state' = k
                 /\ WhosOnFirstStage(state') = 2
           /\ \A j \in 1..28 : WhosOnFirstButton(j) =>
                 /\ WhosOnFirstStage(state) = 2
                 /\ state' = 28 + j
                 /\ WhosOnFirstStage(state') = 3
                 /\ WhosOnFirstLayout(state') = j - 1
           /\ (WhosOnFirstStage(state) = 3 /\ state' # state) =>
                 /\ state' = 0
                 /\ WhosOnFirstReset
           /\ WhosOnFirstReset =>
                 /\ WhosOnFirstStage(state) \in {2, 3}
                 /\ state' = 0
           /\ (WhosOnFirstStage(state) \in {2, 3}) => ENABLED WhosOnFirstReset
       ]_vars

\* the last label was picked under the last word
C25_Witness ==
    /\ module = "WhosOnFirst"
    /\ state = 56
    /\ WhosOnFirstLayout(state) = 27

\* the edges a choice of Memory may take
MemoryEdges ==
    { <<0, 1>>, <<1, 2>>, <<2, 4>>, <<2, 3>>, <<3, 5>>, <<4, 5>>, <<5, 6>>,
      <<5, 7>>, <<6, 7>>, <<7, 8>>, <<8, 9>> }

\* the numbers of choices that lead from state s to state 9 along the edges
RECURSIVE PathLengths(_)
PathLengths(s) ==
    IF s = 9 THEN {0}
    ELSE UNION { {n + 1 : n \in PathLengths(e[2])} : e \in {d \in MemoryEdges : d[1] = s} }

\* a choice of Memory other than "Reset" and "Menu"
MemoryChoice ==
    \/ \E k \in 1..4 : MemoryStage1(k)
    \/ \E i \in 1..4 : MemoryLabel(i)
    \/ \E k \in 1..4 : MemoryStage2(k)
    \/ \E k \in 1..4 : MemoryStage3(k)
    \/ \E k \in 1..4 : MemoryStage4(k)

\* C29: every choice of Memory other than "Reset" and "Menu" strictly
\* increases the state, along 0->1, 1->2, 2->4 (option 1) or 2->3 (options
\* 2..4), 3->5, 4->5, 5->6 (option 3) or 5->7 (options 1, 2, 4), 6->7, 7->8,
\* 8->9; state 9 is reached from 0 after exactly 7 or 8 choices, and no
\* state comes back without "Reset".
C29_ChoicesAdvance ==
    /\ PathLengths(0) = {7, 8}
    /\ \A e \in MemoryEdges : e[1] < e[2]
    /\ [][ module = "Memory" =>
           /\ MemoryChoice => <<state, state'>> \in MemoryEdges
           /\ \A k \in 1..4 : MemoryStage2(k) =>
                 state = 2 /\ state' = IF k = 1 THEN 4 ELSE 3
           /\ \A k \in 1..4 : MemoryStage3(k) =>
                 state = 5 /\ state' = IF k = 3 THEN 6 ELSE 7
           /\ (module' = "Memory" /\ state' # state /\ ~MemoryReset) =>
                 /\ <<state, state'>> \in MemoryEdges
                 /\ state' > state
       ]_vars

\* the last stage was reached by the longer way, through the states 3 and 6
C29_Witness ==
    /\ module = "Memory"
    /\ state = 9
    /\ memory.position2 # 0
    /\ memory.label3 # 0

\* C30 as stated: in state 2 of Memory the third button reads the position
\* recorded in stage 1.
C30_ThirdReadsPosition1 ==
    (module = "Memory" /\ state = 2 /\ panic = "") =>
        Stage2Labels(memory)[3] = <<"position", memory.position1>>

\* C30: in state 2 of Memory the second and the fourth button read the
\* position recorded in stage 1, the third button reads the fixed
\* "position 1" and the first the fixed "label 4"; a click on a button
\* records what the button reads.
C30_SecondAndFourthReadPosition1 ==
    /\ [](module = "Memory" /\ state = 2 /\ panic = "" =>
            /\ memory.position1 \in 2..4
            /\ Stage2Labels(memory)[1] = <<"label", 4>>
            /\ Stage2Labels(memory)[2] = <<"position", memory.position1>>
            /\ Stage2Labels(memory)[3] = <<"position", 1>>
            /\ Stage2Labels(memory)[3] # <<"position", memory.position1>>
            /\ Stage2Labels(memory)[4] = <<"position", memory.position1>>)
    /\ [][ \A k \in 1..4 : MemoryStage2(k) =>
             LET read == Stage2Labels(memory)[k] IN
             IF read[1] = "label"
             THEN memory'.label2 = read[2] /\ memory'.position2 = memory.position2
             ELSE memory'.position2 = read[2] /\ memory'.label2 = memory.label2
       ]_vars

\* stage 2 is shown with position 3 recorded in stage 1
C30_Witness ==
    /\ module = "Memory"
    /\ state = 2
    /\ memory.position1 = 3
    /\ Stage2Labels(memory)[3] = <<"position", 1>>

\* a character with an ASCII lower-case letter replaced by its upper-case
\* letter
UpperCased(c) ==
    IF \E k \in 1..26 : LOWER[k] = c
    THEN UPPER[CHOOSE k \in 1..26 : LOWER[k] = c]
    ELSE c

\* C26: no text is rejected: after an edit of field i with any text the
\* field holds that text, character by character, with the ASCII lower-case
\* letters upper-cased and every other character as typed, the other fields
\* are as before, and the output is what the upper-cased text gives: "a"
\* typed into field 0 of empty fields leaves the words that begin with A.
C26_AnyTextStoredUpperCased ==
    [][ \A i \in 0..4 : \A text \in FreeTexts : PasswordsEdit(i, text) =>
          /\ Len(password'[i + 1]) = Len(text)
          /\ \A n \in 1..Len(text) : password'[i + 1][n] = UpperCased(text[n])
          /\ \A f \in (1..5) \ {i + 1} : password'[f] = password[f]
          /\ label' = SelectSeq(PASSWORDS,
                                LAMBDA word : Satisfies(word, password'))
          /\ text = <<"w", "1">> => password'[i + 1] = <<"W", "1">>
          /\ text = <<"{", "-">> => password'[i + 1] = text
          /\ (text = <<"a">> /\ i = 0 /\ password = PasswordDefault) =>
                label' = <<"ABOUT", "AFTER", "AGAIN">>
      ]_vars

\* a lower-case letter and a digit were typed into field 0, a lower-case
\* letter into field 1
C26_Witness ==
    /\ module = "Passwords"
    /\ password[1] = <<"W", "1">>
    /\ password[2] = <<"A">>
    /\ label = <<>>

\* the fields of the Memory record
MemoryFields ==
    {"position1", "position2", "label1", "label2", "label3", "label4"}

\* the record mem with field f holding v, all other fields as in mem
Recorded(mem, f, v) == [g \in MemoryFields |-> IF g = f THEN v ELSE mem[g]]

\* C31: in state 2 of Memory option 1 records label2 = 4, options 2 and 4
\* record position2 = position1 and option 3 records position2 = 1; in
\* state 5 option 1 records label3 = label2, option 2 label3 = label1,
\* option 4 label3 = 4 and option 3 records nothing; every such choice
\* leaves all other fields as they are, and no choice of a state after 0
\* changes a field that already holds a recorded (non-zero) value.
C31_DerivedValuesRecorded ==
    [][ module = "Memory" =>
        /\ MemoryStage2(1) => memory' = Recorded(memory, "label2", 4)
        /\ (MemoryStage2(2) \/ MemoryStage2(4)) =>
              memory' = Recorded(memory, "position2", memory.position1)
        /\ MemoryStage2(3) => memory' = Recorded(memory, "position2", 1)
        /\ MemoryStage3(1) => memory' = Recorded(memory, "label3", memory.label2)
        /\ MemoryStage3(2) => memory' = Recorded(memory, "label3", memory.label1)
        /\ MemoryStage3(3) => memory' = memory
        /\ MemoryStage3(4) => memory' = Recorded(memory, "label3", 4)
        /\ (state # 0 /\ MemoryChoice) =>
              \A f \in MemoryFields : memory[f] # 0 => memory'[f] = memory[f]
      ]_vars

\* stage 3 was left by option 3 with the label of stage 3 still unset
C31_Witness ==
    /\ module = "Memory"
    /\ state = 6
    /\ memory.label3 = 0
    /\ memory.label2 = 4
    /\ memory.position2 # 0

\* C32: whenever Memory is in state 9 all six values are recorded:
\* position1 is 2, 3 or 4 and position2, label1, label2, label3 and label4
\* are each in 1..4.
C32_RecordCompleteAtEnd ==
    (module = "Memory" /\ state = 9) =>
        /\ memory.position1 \in {2, 3, 4}
        /\ \A f \in MemoryFields \ {"position1"} : memory[f] \in 1..4

\* the last stage is shown with a label of stage 3 copied from stage 1
C32_Witness ==
    /\ module = "Memory"
    /\ state = 9
    /\ memory.label1 = 3
    /\ memory.label3 = 3
    /\ memory.label2 = 1
    /\ memory.label4 = 2

\* the row (from 1) of a button in a column list that holds it
RowIn(column, b) == CHOOSE row \in 1..7 : KEYPAD_COLUMNS[column][row] = b

\* case (a): nothing is ranked and the label is empty
KeypadUnranked(kp, lbl) ==
    /\ \A b \in DOMAIN kp : kp[b] = 0
    /\ lbl = <<>>

\* case (b): 4 symbols of one column list, ranked 1..4 in that list's order,
\* the label being their display names by rank
KeypadRanked(kp, lbl) ==
    /\ Cardinality(DOMAIN kp) = 4
    /\ {kp[b] : b \in DOMAIN kp} = 1..4
    /\ \E column \in 1..6 :
          /\ DOMAIN kp \subseteq ColumnSet(column)
          /\ \A b, c \in DOMAIN kp :
                kp[b] < kp[c] <=> RowIn(column, b) < RowIn(column, c)
    /\ Len(lbl) = 4
    /\ \A b \in DOMAIN kp : lbl[kp[b]] = name(b)

\* C33: in every keypad state exactly one of two cases holds: all selected
\* symbols have rank 0 and the label is empty, or exactly 4 symbols of one
\* column list are selected, ranked 1..4 in that list's order, with the
\* label their display names in rank order; fewer than 4 are never ranked.
C33_RankedOrBlank ==
    module = "Keypad" =>
        /\ KeypadUnranked(keypad, label) \/ KeypadRanked(keypad, label)
        /\ ~(KeypadUnranked(keypad, label) /\ KeypadRanked(keypad, label))
        /\ Cardinality(DOMAIN keypad) < 4 => KeypadUnranked(keypad, label)

\* four symbols of the first column list are selected and ranked
C33_Witness ==
    /\ module = "Keypad"
    /\ KeypadRanked(keypad, label)
    /\ DOMAIN keypad = {"O", "Lambda", "H", "AntiC"}
    /\ keypad["AntiC"] = 4

\* C34: two taps in a row on the same symbol restore the selection, the
\* ranks and the label that held before the first tap, from every keypad
\* state, also when 4 symbols are selected.
C34_DoubleTapRestores ==
    module = "Keypad" =>
        \A px \in 0..TapRes, py \in 0..TapRes :
            LET once == Tapped(keypad, label, px, py)
                twice == Tapped(once.keypad, once.label, px, py)
            IN  /\ twice.keypad = keypad
                /\ twice.label = label

\* four symbols are selected and ranked, and an unselected one can be tapped
C34_Witness ==
    /\ module = "Keypad"
    /\ Cardinality(DOMAIN keypad) = 4
    /\ label # <<>>
    /\ \E px \in 0..TapRes, py \in 0..TapRes :
          /\ TappedButton(px, py) \notin DOMAIN keypad
          /\ TappedButton(px, py) # "None"

\* the selection, ranks and label left by the column lists scanned from the
\* last to the first
RECURSIVE ReRankBackward(_, _)
ReRankBackward(keys, column) ==
    IF column < 1 THEN [keypad |-> [b \in keys |-> 0], label |-> <<>>]
    ELSE IF keys \subseteq ColumnSet(column) /\ Cardinality(keys) = 4
         THEN LET kp == [b \in keys |-> 0]
                  ranks == [b \in keys |-> OrderIn(kp, column, b)]
              IN  [keypad |-> ranks,
                   label  |-> [i \in 1..4 |->
                                 name(CHOOSE b \in keys : ranks[b] = i)]]
         ELSE ReRankBackward(keys, column - 1)

\* C35: any two column lists share at most 3 symbols, so at most one column
\* list holds 4 given symbols and the ranking does not depend on the order
\* the lists are scanned in; and each of the 27 symbols of the grid is in
\* some column list.
C35_ColumnsDisjointEnough ==
    /\ \A c, d \in 1..6 :
          c # d => Cardinality(ColumnSet(c) \cap ColumnSet(d)) <= 3
    /\ Cardinality(KeypadButton \ {"None"}) = 27
    /\ \A b \in KeypadButton \ {"None"} : \E c \in 1..6 : b \in ColumnSet(c)
    /\ module = "Keypad" =>
          /\ Cardinality(DOMAIN keypad) = 4 =>
                Cardinality(Explaining(keypad)) <= 1
          /\ ReRankBackward(DOMAIN keypad, 6).keypad = keypad
          /\ ReRankBackward(DOMAIN keypad, 6).label = label

\* four symbols that the fourth and the fifth column list share three of are
\* selected and ranked by the fifth
C35_Witness ==
    /\ module = "Keypad"
    /\ DOMAIN keypad = {"Smile", "B", "Paragraph", "Trident"}
    /\ Explaining(keypad) = {5}
    /\ keypad["Trident"] = 1

\* the cell (column from 0, row from 0) of a pointer position
CellOf(px, py) ==
    <<(px * 4999) \div (TapRes * 1000), (py * 5999) \div (TapRes * 1000)>>

\* C36: every pointer position resolves to a cell with column in 0..4 and
\* row in 0..5, and a tap on one of the three empty cells (bottom row,
\* columns 2..4) leaves the selection, the ranks and the label as they are.
C36_EmptyCellsInert ==
    /\ [](module = "Keypad" =>
            \A px \in 0..TapRes, py \in 0..TapRes :
                /\ remap_clamp_floor(px, 4999) \in 0..4
                /\ remap_clamp_floor(py, 5999) \in 0..5
                /\ remap_clamp_floor(px, 4999) = CellOf(px, py)[1]
                /\ remap_clamp_floor(py, 5999) = CellOf(px, py)[2]
                /\ (CellOf(px, py)[2] = 5 /\ CellOf(px, py)[1] \in 2..4) =>
                      /\ TappedButton(px, py) = "None"
                      /\ Tapped(keypad, label, px, py).keypad = keypad
                      /\ Tapped(keypad, label, px, py).label = label)
    /\ [][ KeypadTap(TapRes, TapRes) => UNCHANGED <<keypad, label>> ]_vars

\* four ranked symbols are selected while the pointer is on an empty cell
C36_Witness ==
    /\ module = "Keypad"
    /\ Cardinality(DOMAIN keypad) = 4
    /\ label # <<>>
    /\ CellOf(TapRes, TapRes) = <<4, 5>>
    /\ TappedButton(TapRes, TapRes) = "None"

\* the four colors
Colors == {SimonColor[c] : c \in 1..4}

\* C37: under each of the 6 combinations of the vowel flag and the strikes
\* the translation is a bijection on the four colors: two different entered
\* colors never translate to the same color, in particular not in the rows
\* shown.
C37_TranslationBijective ==
    /\ \A vowel \in BOOLEAN, strikes \in 0..2 :
          LET simon == [simon_says EXCEPT !.vowel = vowel, !.strikes = strikes]
          IN  /\ \A c, d \in Colors :
                    c # d => convert(simon, c) # convert(simon, d)
              /\ {convert(simon, c) : c \in Colors} = Colors
    /\ \A n, m \in 1..Len(simon_says.entered) :
          simon_says.entered[n] # simon_says.entered[m] =>
              SimonSaysRows(simon_says)[n][2] # SimonSaysRows(simon_says)[m][2]

\* two different colors are entered with 1 strike and no vowel
C37_Witness ==
    /\ module = "SimonSays"
    /\ simon_says = [strikes |-> 1, vowel |-> FALSE,
                     entered |-> <<"Red", "Yellow">>]
    /\ SimonSaysRows(simon_says) = << <<"Red", "Red">>, <<"Yellow", "Green">> >>

\* C38: in every Passwords state the label is the filter of the 35-word
\* table by the five fields, or it is empty with all five fields empty (no
\* edit since the entry or the Reset); Reset leaves the label empty, while
\* an edit that leaves all fields empty gives all 35 words.
C38_LabelIsFilterOrBlank ==
    /\ []((module = "Passwords" /\ panic = "") =>
            \/ label = SelectSeq(PASSWORDS,
                                 LAMBDA word : Satisfies(word, password))
            \/ label = <<>> /\ password = PasswordDefault)
    /\ [][ /\ PasswordsReset =>
                /\ label' = <<>>
                /\ password' = PasswordDefault
           /\ (PasswordsEdited /\ password' = PasswordDefault) =>
                /\ label' = PASSWORDS
                /\ Len(label') = 35
       ]_vars

\* a field was typed into and emptied again: all 35 words are listed
C38_Witness ==
    /\ module = "Passwords"
    /\ password = PasswordDefault
    /\ label = PASSWORDS
    /\ Len(label) = 35

\* C39: whenever the menu is shown the keypad selection and the label are
\* empty, the five password fields are empty, the Simon-Says state is the
\* default and the three wire counters are 0; so Passwords and Keypad are
\* both entered with an empty label, whatever the other wrote.
C39_MenuHoldsDefaults ==
    /\ [](module = "Menu" =>
            /\ keypad = <<>>
            /\ label = <<>>
            /\ \A i \in 1..5 : password[i] = <<>>
            /\ simon_says.entered = <<>>
            /\ simon_says.strikes = 0
            /\ ~simon_says.vowel
            /\ \A channel \in Channels : wire_sequence[channel] = 0)
    /\ [][ (MenuSelect("Passwords") \/ MenuSelect("Keypad")) =>
              /\ label' = <<>>
              /\ keypad' = <<>>
              /\ \A i \in 1..5 : password'[i] = <<>>
       ]_vars

\* the menu is shown again after a module was left
C39_Witness ==
    /\ module = "Menu"
    /\ state = WHOS_ON_FIRST_POSITIONS_len + WHOS_ON_FIRST_BUTTONS_len
    /\ label = <<>>
    /\ keypad = <<>>

\* the state the application starts in
InitialState ==
    /\ module = "Menu"
    /\ state = 0
    /\ label = <<>>
    /\ keypad = <<>>
    /\ simon_says = SimonSaysDefault
    /\ memory = MemoryDefault
    /\ wire_sequence = WireSequenceDefault
    /\ password = PasswordDefault
    /\ panic = ""

\* an input that is a click on "Menu", on "Reset" or on a module of the menu
RecoveryInput ==
    \/ MenuClick
    \/ ResetClick
    \/ \E m \in MenuButtons : MenuSelect(m)

\* the number of recovery inputs that lead back to the initial state: the
\* module's "Menu", then "Memory" in the menu, then "Menu" in state 0 of
\* Memory, which clears the record
RecoveryDistance ==
    IF InitialState THEN 0
    ELSE IF module = "Memory" /\ state = 0 THEN 1
    ELSE IF module = "Menu" THEN 2
    ELSE 3

\* C40: every reachable state is recoverable: no state is an error state,
\* and from every state but the initial one an input among "Menu", "Reset"
\* and the selection of a module leads one step nearer to the initial state
\* (the menu, state 0, every working memory and the Memory record at their
\* defaults), which is so reached again after at most 3 such inputs; the
\* initial state itself is no dead end.
C40_Recoverable ==
    /\ panic = ""
    /\ RecoveryDistance = 0 <=> InitialState
    /\ RecoveryDistance > 0 =>
          ENABLED (RecoveryInput /\ RecoveryDistance' < RecoveryDistance)
    /\ InitialState => ENABLED (\E m \in MenuButtons : MenuSelect(m))

\* the last stage of Memory is shown with a complete record
C40_Witness ==
    /\ module = "Memory"
    /\ state = 9
    /\ memory.label4 # 0
    /\ RecoveryDistance = 3

=============================================================================
